---- MODULE Spec2Model ----
(***************************************************************************)
(* Selection / edit controller of ImageAnnotator.jsx.                      *)
(*                                                                         *)
(* The component state (this.state), React's queue of setState requests    *)
(* with their completion callbacks, the microtask queue holding promise    *)
(* continuations, and a log of everything the controller does to the       *)
(* outside world (public events, annotation-layer calls, promise           *)
(* resolutions).                                                           *)
(*                                                                         *)
(* setState is modelled in both ways React offers it: applied at once,     *)
(* its callback called before setState returns (batched = FALSE), and      *)
(* deferred to a later flush that merges the queued partial states and     *)
(* then calls their callbacks (batched = TRUE).  Which one a build gets    *)
(* is fixed by the renderer, so it is chosen once, in Init.  this.state    *)
(* never shows a queued update before the flush.                           *)
(*                                                                         *)
(* Promise continuations are microtasks: they run before the next event    *)
(* or API call is handled.  Annotation values are records compared and     *)
(* copied structurally, so clone() of an unchanged value is that value.    *)
(***************************************************************************)
EXTENDS Integers, Sequences, FiniteSets, TLC

VARIABLES
  state,      \* this.state (lines 9-21)
  pending,    \* setState requests not applied yet: <<[partial, cb]>>
  micro,      \* promise continuations waiting in the microtask queue
  log,        \* events, layer calls and promise resolutions of the episode
  calls,      \* promises created in the episode: [resolved, cont]
  escListener,\* TRUE iff headlessCancel is registered as 'keyup' listener
  batched,    \* TRUE: setState is deferred to a flush; FALSE: applied at once
  idCallbacks,\* ids whose id-override callback was handed to the application
  mounted,    \* FALSE once componentWillUnmount has run
  reentrant,  \* TRUE: 'select' and saveSelected() may arrive without being awaited
  hist        \* history: the stimulus that opened the episode, state before it

vars == <<state, pending, micro, log, calls, escListener, batched, idCallbacks,
          mounted, reentrant, hist>>

----------------------------------------------------------------------------
(* Bounds *)

\* external stimuli (layer events, key presses, editor actions, API calls) that
\* one episode takes: the first arrives when nothing is waiting to run, the
\* others while deferred work of the earlier ones is still queued
MaxStimuli == 1

----------------------------------------------------------------------------
(* Values *)

NoTarget == "none"
NoElem   == "none"
NoAnn    == [id |-> "none", body |-> 0, target |-> NoTarget, isSelection |-> FALSE]

Ann(id, body, target, sel) ==
  [id |-> id, body |-> body, target |-> target, isSelection |-> sel]

\* annotations held by the layer, and a freshly drawn selection (draft)
AnnA   == Ann("a", 0, "T1", FALSE)
AnnB   == Ann("b", 0, "T1", FALSE)
DraftD == Ann("draft", 0, "T1", TRUE)

ElementOf(annotation) == annotation.id

\* the 'select' events of the layer: { annotation, element, skipEvent }
SelectEvt(annotation, skipEvent) ==
  [annotation |-> annotation, element |-> ElementOf(annotation), skipEvent |-> skipEvent]

SelectEvents ==
  {SelectEvt(AnnA, FALSE), SelectEvt(AnnB, FALSE), SelectEvt(DraftD, FALSE),
   SelectEvt(NoAnn, FALSE), SelectEvt(AnnB, TRUE)}

\* annotations handed to updateSelected by the application
UpdateInputs ==
  {Ann("a", 1, "T1", FALSE), Ann("a", 2, "T2", FALSE), Ann("draft", 1, "T2", TRUE)}

\* targets reported by 'updateTarget'
TargetInputs == {"T3"}


\* Selection.toAnnotation(): a committed annotation with a generated id
toAnnotation(a) == [a EXCEPT !.isSelection = FALSE, !.id = "gen"]

\* annotation.isEqual(other): structural equality of the two values
isEqual(a, b) == a = b

\* annotation.clone(opt_props): a structural copy with the given target
clone(a, target) == [a EXCEPT !.target = target]

\* what an id-override callback keeps of the created annotation (line 143),
\* and the id the application forces on it, as a value of the same shape
IdOf(id) == Ann(id, 0, NoTarget, FALSE)
ForcedId == IdOf("forced")

----------------------------------------------------------------------------
(* Machine configuration threaded through a handler *)

Cfg ==
  [state |-> state, pending |-> pending, micro |-> micro, log |-> log,
   calls |-> calls, escListener |-> escListener, batched |-> batched,
   idCallbacks |-> idCallbacks]

NoCb == [k |-> "none"]

\* one entry of the log; sel is this.state.selectedAnnotation when it happened
\* by is the promise the entry belongs to (0: none); idCb tells that the second
\* argument of the event is the id-override callback instead of a previous value
Entry(c, type, ann, prev, by) ==
  [type |-> type, ann |-> ann, prev |-> prev, by |-> by, idCb |-> FALSE,
   sel |-> c.state.selectedAnnotation]

Emit(c, type, ann, prev, by) ==
  [c EXCEPT !.log = Append(@, Entry(c, type, ann, prev, by))]

\* this.props[method](a, this.overrideAnnotationId(a))
EmitWithIdCallback(c, type, ann, by) ==
  [c EXCEPT !.log = Append(@, [Entry(c, type, ann, NoAnn, by) EXCEPT !.idCb = TRUE]),
            !.idCallbacks = @ \cup {ann.id}]

Apply(st, p) == [k \in DOMAIN st |-> IF k \in DOMAIN p THEN p[k] ELSE st[k]]

\* the promise a callback resolves, 0 if it resolves none
ByOf(cb) == IF cb.k = "resolve" THEN cb.p ELSE 0

RECURSIVE SetState(_, _, _), RunCb(_, _), select(_, _)

\* this.setState(partial, cb)
SetState(c, partial, cb) ==
  IF c.batched
    THEN [c EXCEPT !.pending = Append(@, [partial |-> partial, cb |-> cb])]
    ELSE RunCb([c EXCEPT !.state = Apply(@, partial)], cb)

ClearedFields ==
  [selectedAnnotation |-> NoAnn, selectedDOMElement |-> NoElem,
   modifiedTarget |-> NoTarget, beforeHeadlessModify |-> NoAnn]

clearState(c, opt_callback) == SetState(c, ClearedFields, opt_callback)

\* mutant: the continuation of the latest promise runs first
Resolve_Lifo(c, p) ==
  LET c1 == Emit(c, "resolve", NoAnn, NoAnn, p)
      c2 == [c1 EXCEPT !.calls[p].resolved = @ + 1]
  IN  IF c.calls[p].resolved = 0 /\ c.calls[p].cont.k # "none"
        THEN [c2 EXCEPT !.micro = <<c.calls[p].cont>> \o @]
        ELSE c2

\* resolve(): the promise is settled by the first call; its .then
\* continuation, if any, is queued as a microtask
Resolve(c, p) ==
  LET c1 == Emit(c, "resolve", NoAnn, NoAnn, p)
      c2 == [c1 EXCEPT !.calls[p].resolved = @ + 1]
  IN  IF c.calls[p].resolved = 0 /\ c.calls[p].cont.k # "none"
        THEN [c2 EXCEPT !.micro = Append(@, c.calls[p].cont)]
        ELSE c2

\* new Promise(resolve => ...): the promise is number Len(calls) + 1
NewPromise(c, op, cont) ==
  [c EXCEPT !.calls = Append(@, [op |-> op, resolved |-> 0, cont |-> cont,
                                 open |-> c.state.selectedAnnotation # NoAnn])]

\* const select = () => ... of onNormalSelect
select(c, evt) ==
  SetState(c,
    [selectedAnnotation |-> evt.annotation,
     selectedDOMElement |-> evt.element,
     modifiedTarget |-> NoTarget,
     beforeHeadlessModify |-> NoAnn],
    [k |-> "selectEvent", evt |-> evt])

\* the callback of select's setState (lines 81-89)
SelectCallback(c, cb) ==
  IF cb.evt.skipEvent THEN c
  ELSE IF cb.evt.annotation.isSelection
    THEN Emit(c, "onSelectionCreated", cb.evt.annotation, NoAnn, 0)
    ELSE Emit(c, "onAnnotationSelected", cb.evt.annotation, NoAnn, 0)

\* mutant: the new selection is made before the cancel event is fired
CancelThenSelectCallback_SelectFirst(c, cb) ==
  Emit(select(c, cb.evt), "onCancelSelected", cb.old, NoAnn, 0)

\* the callback of clearState at lines 97-100
CancelThenSelectCallback(c, cb) ==
  select(Emit(c, "onCancelSelected", cb.old, NoAnn, 0), cb.evt)

\* the callback of clearState at lines 108-110
CancelCallback(c, cb) == Emit(c, "onCancelSelected", cb.old, NoAnn, 0)

\* mutant: opt_callback is called before the layer and the event handler
CommitCallback_ResolveFirst(c, cb) ==
  LET c0 == RunCb(c, cb.cb)
      c1 == Emit(c0, "layer.deselect", NoAnn, NoAnn, ByOf(cb.cb))
      c2 == Emit(c1, "layer.addOrUpdateAnnotation", cb.a, cb.previous, ByOf(cb.cb))
  IN  IF cb.previous # NoAnn
        THEN Emit(c2, cb.method, cb.a, cb.previous, ByOf(cb.cb))
        ELSE EmitWithIdCallback(c2, cb.method, cb.a, ByOf(cb.cb))

\* mutant: with the editor disabled the commit leaves the layer's selection
CommitCallback_HeadlessKeepsLayer(c, cb) ==
  LET c1 == IF c.state.editorDisabled
              THEN c
              ELSE Emit(c, "layer.deselect", NoAnn, NoAnn, ByOf(cb.cb))
      c2 == Emit(c1, "layer.addOrUpdateAnnotation", cb.a, cb.previous, ByOf(cb.cb))
      c3 == IF cb.previous # NoAnn
              THEN Emit(c2, cb.method, cb.a, cb.previous, ByOf(cb.cb))
              ELSE EmitWithIdCallback(c2, cb.method, cb.a, ByOf(cb.cb))
  IN  RunCb(c3, cb.cb)

\* the callback of clearState in onCreateOrUpdateAnnotation (lines 167-178)
CommitCallback(c, cb) ==
  LET c1 == Emit(c, "layer.deselect", NoAnn, NoAnn, ByOf(cb.cb))
      c2 == Emit(c1, "layer.addOrUpdateAnnotation", cb.a, cb.previous, ByOf(cb.cb))
      c3 == IF cb.previous # NoAnn
              THEN Emit(c2, cb.method, cb.a, cb.previous, ByOf(cb.cb))
              ELSE EmitWithIdCallback(c2, cb.method, cb.a, ByOf(cb.cb))
  IN  RunCb(c3, cb.cb)

\* the callback of clearState in overrideAnnotationId (line 148)
OverrideCallback(c, cb) == Emit(c, "layer.overrideId", cb.a, cb.forced, 0)

\* the callback of setState in set disableEditor (lines 217-224)
DisableEditorCallback(c, cb) ==
  IF cb.disabled /\ ~c.state.editorDisabled
    THEN [c EXCEPT !.escListener = TRUE]
    ELSE IF ~cb.disabled /\ c.state.editorDisabled
      THEN [c EXCEPT !.escListener = FALSE]
      ELSE c

\* the completion callbacks handed to setState
RunCb(c, cb) ==
  CASE cb.k = "none" -> c
    [] cb.k = "resolve" -> Resolve(c, cb.p)
    [] cb.k = "selectEvent" -> SelectCallback(c, cb)
    [] cb.k = "cancelThenSelect" -> CancelThenSelectCallback(c, cb)
    [] cb.k = "cancelOnly" -> CancelCallback(c, cb)
    [] cb.k = "commit" -> CommitCallback(c, cb)
    [] cb.k = "overrideId" -> OverrideCallback(c, cb)
    [] cb.k = "setDisabled" -> DisableEditorCallback(c, cb)

----------------------------------------------------------------------------
(* Handlers *)

componentWillUnmount(c) ==
  LET c1 == Emit(c, "layer.destroy", NoAnn, NoAnn, 0)
  IN  IF c1.state.editorDisabled THEN [c1 EXCEPT !.escListener = FALSE] ELSE c1

headlessCancel(c, which) ==
  IF which = 27
    THEN Emit(clearState(c, NoCb), "layer.deselect", NoAnn, NoAnn, 0)
    ELSE c

\* mutant: the previous selection is replaced without being cancelled
onNormalSelect_NoCancel(c, evt) ==
  IF evt.annotation # NoAnn
    THEN select(c, evt)
    ELSE IF c.state.selectedAnnotation # NoAnn
           THEN clearState(c, [k |-> "cancelOnly", old |-> c.state.selectedAnnotation])
           ELSE clearState(c, NoCb)

\* selection when editorDisabled == false
onNormalSelect(c, evt) ==
  LET selectedAnnotation == c.state.selectedAnnotation
  IN  IF evt.annotation # NoAnn
        THEN IF selectedAnnotation # NoAnn /\ ~isEqual(selectedAnnotation, evt.annotation)
               THEN clearState(c, [k |-> "cancelThenSelect",
                                   old |-> selectedAnnotation, evt |-> evt])
               ELSE select(c, evt)
        ELSE IF selectedAnnotation # NoAnn
               THEN clearState(c, [k |-> "cancelOnly", old |-> selectedAnnotation])
               ELSE clearState(c, NoCb)

handleUpdateTarget(c, selectedDOMElement, modifiedTarget) ==
  LET c1 == SetState(c, [selectedDOMElement |-> selectedDOMElement,
                         modifiedTarget |-> modifiedTarget], NoCb)
  IN  Emit(c1, "onSelectionTargetChanged", clone(NoAnn, modifiedTarget), NoAnn, 0)

\* mutant: the layer's id is overridden before the open selection is cleared
overrideAnnotationId_NoClear(c, originalAnnotation, forcedId) ==
  OverrideCallback(c, [a |-> originalAnnotation, forced |-> forcedId])

overrideAnnotationId(c, originalAnnotation, forcedId) ==
  IF c.state.selectedAnnotation # NoAnn
    THEN clearState(c, [k |-> "overrideId", a |-> originalAnnotation, forced |-> forcedId])
    ELSE OverrideCallback(c, [a |-> originalAnnotation, forced |-> forcedId])

\* mutant: a pending modifiedTarget is not merged into the committed annotation
onCreateOrUpdateAnnotation_NoMerge(c, method, opt_callback, annotation, previous) ==
  LET a == IF annotation.isSelection THEN toAnnotation(annotation) ELSE annotation
  IN  clearState(c, [k |-> "commit", method |-> method, a |-> a,
                     previous |-> previous, cb |-> opt_callback])

\* common handler for annotation CREATE or UPDATE
onCreateOrUpdateAnnotation(c, method, opt_callback, annotation, previous) ==
  LET a0 == IF annotation.isSelection THEN toAnnotation(annotation) ELSE annotation
      a  == IF c.state.modifiedTarget # NoTarget
              THEN clone(a0, c.state.modifiedTarget)
              ELSE a0
  IN  clearState(c, [k |-> "commit", method |-> method, a |-> a,
                     previous |-> previous, cb |-> opt_callback])

\* mutant: the controller state is not cleared on delete
onDeleteAnnotation_NoClear(c, annotation) ==
  Emit(Emit(c, "layer.removeAnnotation", annotation, NoAnn, 0),
       "onAnnotationDeleted", annotation, NoAnn, 0)

onDeleteAnnotation(c, annotation) ==
  LET c1 == clearState(c, NoCb)
      c2 == Emit(c1, "layer.removeAnnotation", annotation, NoAnn, 0)
  IN  Emit(c2, "onAnnotationDeleted", annotation, NoAnn, 0)

\* mutant: in headless mode the cancel event is not fired either
onCancelAnnotation_SilentHeadless(c, annotation, opt_callback) ==
  LET c1 == IF ~c.state.editorDisabled
              THEN Emit(Emit(c, "layer.deselect", NoAnn, NoAnn, ByOf(opt_callback)),
                        "onCancelSelected", annotation, NoAnn, ByOf(opt_callback))
              ELSE c
  IN  clearState(c1, opt_callback)

\* Cancel button on annotation editor
onCancelAnnotation(c, annotation, opt_callback) ==
  LET c1 == IF ~c.state.editorDisabled
              THEN Emit(c, "layer.deselect", NoAnn, NoAnn, ByOf(opt_callback))
              ELSE c
      c2 == Emit(c1, "onCancelSelected", annotation, NoAnn, ByOf(opt_callback))
  IN  clearState(c2, opt_callback)

----------------------------------------------------------------------------
(* External API *)

cancelSelected(c) ==
  IF c.state.selectedAnnotation # NoAnn
    THEN onCancelAnnotation(c, c.state.selectedAnnotation, NoCb)
    ELSE c

setDisableEditor(c, disabled) ==
  SetState(c, [editorDisabled |-> disabled], [k |-> "setDisabled", disabled |-> disabled])

removeAnnotation(c, annotationOrId) ==
  Emit(c, "layer.removeAnnotation", annotationOrId, NoAnn, 0)

\* mutant: an unchanged existing annotation is updated instead of cancelled
saveSelected_AlwaysUpdate(c, cont) ==
  LET c1 == NewPromise(c, "saveSelected", cont)
      resolve == [k |-> "resolve", p |-> Len(c1.calls)]
      a == c.state.selectedAnnotation
  IN  IF a # NoAnn
        THEN IF a.isSelection
               THEN onCreateOrUpdateAnnotation(c1, "onAnnotationCreated", resolve,
                                               toAnnotation(a), a)
               ELSE IF c.state.beforeHeadlessModify # NoAnn
                 THEN onCreateOrUpdateAnnotation(c1, "onAnnotationUpdated", resolve,
                                                 a, c.state.beforeHeadlessModify)
                 ELSE onCreateOrUpdateAnnotation(c1, "onAnnotationUpdated", resolve, a, a)
        ELSE Resolve(c1, resolve.p)

\* cont is the continuation the caller chains with .then (NoCb: none)
saveSelected(c, cont) ==
  LET c1 == NewPromise(c, "saveSelected", cont)
      resolve == [k |-> "resolve", p |-> Len(c1.calls)]
      a == c.state.selectedAnnotation
  IN  IF a # NoAnn
        THEN IF a.isSelection
               THEN onCreateOrUpdateAnnotation(c1, "onAnnotationCreated", resolve,
                                               toAnnotation(a), a)
               ELSE IF c.state.beforeHeadlessModify # NoAnn
                 THEN onCreateOrUpdateAnnotation(c1, "onAnnotationUpdated", resolve,
                                                 a, c.state.beforeHeadlessModify)
                 ELSE IF c.state.modifiedTarget # NoTarget
                   THEN onCreateOrUpdateAnnotation(c1, "onAnnotationUpdated", resolve, a, a)
                   ELSE onCancelAnnotation(c1, a, resolve)
        ELSE Resolve(c1, resolve.p)

\* found is what annotationLayer.selectAnnotation(arg) returns
selectAnnotation(c, arg, found) ==
  LET c1 == Emit(c, "layer.selectAnnotation", arg, NoAnn, 0)
  IN  IF found THEN c1 ELSE clearState(c1, NoCb)

\* mutant: every updateSelected(x, false) overwrites the recorded baseline
updateSelected_LastWins(c, annotation, saveImmediately) ==
  LET c1 == NewPromise(c, "updateSelected", NoCb)
      resolve == [k |-> "resolve", p |-> Len(c1.calls)]
  IN  IF c.state.selectedAnnotation # NoAnn
        THEN IF saveImmediately
               THEN IF c.state.selectedAnnotation.isSelection
                      THEN onCreateOrUpdateAnnotation(c1, "onAnnotationCreated", resolve,
                                                      annotation, NoAnn)
                      ELSE onCreateOrUpdateAnnotation(c1, "onAnnotationUpdated", resolve,
                                                      annotation, c.state.selectedAnnotation)
               ELSE SetState(c1,
                      [selectedAnnotation |-> annotation,
                       beforeHeadlessModify |-> c.state.selectedAnnotation],
                      resolve)
        ELSE c1

updateSelected(c, annotation, saveImmediately) ==
  LET c1 == NewPromise(c, "updateSelected", NoCb)
      resolve == [k |-> "resolve", p |-> Len(c1.calls)]
  IN  IF c.state.selectedAnnotation # NoAnn
        THEN IF saveImmediately
               THEN IF c.state.selectedAnnotation.isSelection
                      THEN onCreateOrUpdateAnnotation(c1, "onAnnotationCreated", resolve,
                                                      annotation, NoAnn)
                      ELSE onCreateOrUpdateAnnotation(c1, "onAnnotationUpdated", resolve,
                                                      annotation, c.state.selectedAnnotation)
               ELSE SetState(c1,
                      [selectedAnnotation |-> annotation,
                       beforeHeadlessModify |->
                         IF c.state.beforeHeadlessModify # NoAnn
                           THEN c.state.beforeHeadlessModify
                           ELSE c.state.selectedAnnotation],
                      resolve)
        ELSE c1

\* selection when editorDisabled == true
onHeadlessSelect(c, evt) == saveSelected(c, [k |-> "thenNormalSelect", evt |-> evt])

handleSelect(c, evt) ==
  IF c.state.editorDisabled THEN onHeadlessSelect(c, evt) ELSE onNormalSelect(c, evt)

----------------------------------------------------------------------------
(* React's update queue and the microtask queue *)

RECURSIVE ApplyAll(_, _), RunAll(_, _)

\* the queued partial states are merged in the order they were requested
ApplyAll(st, q) ==
  IF q = <<>> THEN st ELSE ApplyAll(Apply(st, Head(q).partial), Tail(q))

\* then the callbacks run, in the same order, against the merged state
RunAll(c, q) ==
  IF q = <<>> THEN c ELSE RunAll(RunCb(c, Head(q).cb), Tail(q))

\* the continuation of saveSelected().then(...) in onHeadlessSelect (line 122)
RunContinuation(c, cont) == onNormalSelect(c, cont.evt)

----------------------------------------------------------------------------
(* The state machine *)

InitialState(disableEditor) ==
  [selectedAnnotation |-> NoAnn, selectedDOMElement |-> NoElem,
   modifiedTarget |-> NoTarget, editorDisabled |-> disableEditor,
   beforeHeadlessModify |-> NoAnn]

NoOp == [name |-> "init", ann |-> NoAnn, flag |-> FALSE]

\* history of the awaited updateSelected(x, false) calls made on the current
\* selection: fresh tells that since the last 'select' event only such calls
\* and 'updateTarget' events arrived, each after the earlier had settled; orig
\* is the selection before the first call, last the value supplied by the
\* latest, edits their number (2 stands for two or more)
NoEdits == [fresh |-> FALSE, orig |-> NoAnn, last |-> NoAnn, edits |-> 0]

\* the latest stimulus of the episode, if it is a 'select' event
NoSelect == [seen |-> FALSE, ann |-> NoAnn]

NoHistory(disableEditor) ==
  [op |-> NoOp, pre |-> InitialState(disableEditor), n |-> 0, chain |-> NoEdits,
   lastSelect |-> NoSelect, again |-> FALSE]

\* construction followed by componentDidMount (lines 9-21, 31-44)
Init ==
  /\ \E disableEditor \in BOOLEAN :
       /\ state = InitialState(disableEditor)
       /\ escListener = disableEditor
       /\ hist = NoHistory(disableEditor)
  /\ batched \in BOOLEAN
  /\ idCallbacks = {}
  /\ mounted = TRUE
  /\ reentrant = FALSE
  /\ pending = <<>>
  /\ micro = <<>>
  /\ log = <<>>
  /\ calls = <<>>

\* nothing is waiting to run
Quiescent == pending = <<>> /\ micro = <<>>

\* the configuration a stimulus starts from: a stimulus arriving when all
\* earlier work has settled opens a new episode with an empty log
Start == IF Quiescent THEN [Cfg EXCEPT !.log = <<>>, !.calls = <<>>] ELSE Cfg

\* the history of updateSelected(x, false) calls after stimulus op
Chain(op) ==
  CASE op.name = "select" -> [NoEdits EXCEPT !.fresh = TRUE]
    [] op.name = "updateTarget" -> hist.chain
    [] op.name = "saveSelected" /\ hist.chain.fresh ->
         [hist.chain EXCEPT !.fresh = FALSE]
    [] /\ op.name = "updateSelected"
       /\ ~op.flag
       /\ hist.chain.fresh
       /\ state.selectedAnnotation # NoAnn ->
         [fresh |-> TRUE,
          orig |-> IF hist.chain.edits = 0
                     THEN state.selectedAnnotation ELSE hist.chain.orig,
          last |-> op.ann,
          edits |-> IF hist.chain.edits = 0 THEN 1 ELSE 2]
    [] OTHER -> NoEdits

\* the stimuli the application or the layer may issue without awaiting the
\* one before when reentrant use is explored: 'select' events and saveSelected()
Unawaited == {"select", "saveSelected"}

\* op as the latest stimulus, and whether op is a 'select' for the
\* annotation that was open when the episode began
LastSelect(op) ==
  IF op.name = "select" THEN [seen |-> TRUE, ann |-> op.ann] ELSE NoSelect

Reselects(op, pre) ==
  /\ op.name = "select"
  /\ pre.selectedAnnotation # NoAnn
  /\ op.ann.id = pre.selectedAnnotation.id

\* op arrives while a headless finalize of an open selection, started by a
\* 'select' event or a saveSelected() call, has not run to completion
Reenters(op) ==
  /\ op.name \in Unawaited
  /\ hist.op.name \in Unawaited
  /\ hist.pre.editorDisabled
  /\ hist.pre.selectedAnnotation # NoAnn

\* a task of the event loop starts only after the microtask queue has drained
Accept(op) ==
  /\ mounted
  /\ micro = <<>>
  /\ \/ Quiescent
     \/ ~reentrant /\ hist.n < MaxStimuli
     \/ reentrant /\ hist.n < MaxStimuli + 1 /\ Reenters(op)
  /\ mounted' = (op.name # "unmount")
  /\ hist' = IF Quiescent
               THEN [op |-> op, pre |-> state, n |-> 1, chain |-> Chain(op),
                     lastSelect |-> LastSelect(op),
                     again |-> Reselects(op, state)]
               ELSE [hist EXCEPT !.n = @ + 1, !.chain = NoEdits,
                                 !.lastSelect = LastSelect(op),
                                 !.again = @ \/ Reselects(op, hist.pre)]

Become(c) ==
  /\ state' = c.state
  /\ pending' = c.pending
  /\ micro' = c.micro
  /\ log' = c.log
  /\ calls' = c.calls
  /\ escListener' = c.escListener
  /\ idCallbacks' = c.idCallbacks
  /\ UNCHANGED <<batched, reentrant>>

Op(name, ann, flag) == [name |-> name, ann |-> ann, flag |-> flag]

\* the annotation layer emits 'select'
LayerSelect ==
  \E evt \in SelectEvents :
    /\ Accept(Op("select", evt.annotation, evt.skipEvent))
    /\ Become(handleSelect(Start, evt))

\* the annotation layer emits 'updateTarget'
LayerUpdateTarget ==
  \E target \in TargetInputs :
    /\ Accept(Op("updateTarget", clone(NoAnn, target), FALSE))
    /\ Become(handleUpdateTarget(Start, "el", target))

\* a key is released while headlessCancel is registered
KeyUp ==
  \E which \in {27, 13} :
    /\ escListener
    /\ Accept(Op("keyup", NoAnn, which = 27))
    /\ Become(headlessCancel(Start, which))

\* the editor is rendered iff a selection exists and the editor is enabled
EditorOpen == state.selectedAnnotation # NoAnn /\ ~state.editorDisabled

\* the editor's Ok button: the edited annotation is created or updated
EditorOk ==
  /\ EditorOpen
  /\ LET edited == [state.selectedAnnotation EXCEPT !.body = 3]
     IN  /\ Accept(Op("editorOk", edited, FALSE))
         /\ Become(IF edited.isSelection
                     THEN onCreateOrUpdateAnnotation(Start, "onAnnotationCreated", NoCb,
                                                     toAnnotation(edited), NoAnn)
                     ELSE onCreateOrUpdateAnnotation(Start, "onAnnotationUpdated", NoCb,
                                                     edited, state.selectedAnnotation))

EditorDelete ==
  /\ EditorOpen
  /\ Accept(Op("editorDelete", state.selectedAnnotation, FALSE))
  /\ Become(onDeleteAnnotation(Start, state.selectedAnnotation))

EditorCancel ==
  /\ EditorOpen
  /\ Accept(Op("editorCancel", state.selectedAnnotation, FALSE))
  /\ Become(onCancelAnnotation(Start, state.selectedAnnotation, NoCb))

ApiCancelSelected ==
  /\ Accept(Op("cancelSelected", NoAnn, FALSE))
  /\ Become(cancelSelected(Start))

ApiSetDisableEditor ==
  \E disabled \in BOOLEAN :
    /\ Accept(Op("disableEditor", NoAnn, disabled))
    /\ Become(setDisableEditor(Start, disabled))

ApiRemoveAnnotation ==
  \E annotation \in {AnnA} :
    /\ Accept(Op("removeAnnotation", annotation, FALSE))
    /\ Become(removeAnnotation(Start, annotation))

ApiSaveSelected ==
  /\ Accept(Op("saveSelected", NoAnn, FALSE))
  /\ Become(saveSelected(Start, NoCb))

ApiSelectAnnotation ==
  \E arg \in {AnnA}, found \in BOOLEAN :
    /\ Accept(Op("selectAnnotation", arg, found))
    /\ Become(selectAnnotation(Start, arg, found))

ApiUpdateSelected ==
  \E annotation \in UpdateInputs, saveImmediately \in BOOLEAN :
    /\ Accept(Op("updateSelected", annotation, saveImmediately))
    /\ Become(updateSelected(Start, annotation, saveImmediately))

\* the application calls an id-override callback it received with a created
\* event; the callback has captured the id of the created annotation
InvokeIdOverride ==
  \E id \in idCallbacks :
    /\ Accept(Op("overrideId", IdOf(id), FALSE))
    /\ Become(overrideAnnotationId(Start, IdOf(id), ForcedId))

\* React unmounts the component once nothing is waiting to run
Unmount ==
  /\ Quiescent
  /\ Accept(Op("unmount", NoAnn, FALSE))
  /\ Become(componentWillUnmount(Start))

\* React applies the queued state updates and then runs their callbacks
Flush ==
  /\ pending # <<>>
  /\ Become(RunAll([Cfg EXCEPT !.state = ApplyAll(state, pending), !.pending = <<>>],
                   pending))
  /\ UNCHANGED <<hist, mounted>>

\* the event loop runs the oldest promise continuation
RunMicrotask ==
  /\ micro # <<>>
  /\ Become(RunContinuation([Cfg EXCEPT !.micro = Tail(micro)], Head(micro)))
  /\ UNCHANGED <<hist, mounted>>

Next ==
  \/ LayerSelect
  \/ LayerUpdateTarget
  \/ KeyUp
  \/ EditorOk
  \/ EditorDelete
  \/ EditorCancel
  \/ ApiCancelSelected
  \/ ApiSetDisableEditor
  \/ ApiRemoveAnnotation
  \/ ApiSaveSelected
  \/ ApiSelectAnnotation
  \/ ApiUpdateSelected
  \/ InvokeIdOverride
  \/ Unmount
  \/ Flush
  \/ RunMicrotask

Spec == Init /\ [][Next]_vars

\* the same component used without awaiting: a 'select' event or a
\* saveSelected() call may arrive once more while the deferred work of the
\* earlier stimuli of the episode is still queued
InitReentrant ==
  /\ \E disableEditor \in BOOLEAN :
       /\ state = InitialState(disableEditor)
       /\ escListener = disableEditor
       /\ hist = NoHistory(disableEditor)
  /\ batched \in BOOLEAN
  /\ idCallbacks = {}
  /\ mounted = TRUE
  /\ reentrant = TRUE
  /\ pending = <<>>
  /\ micro = <<>>
  /\ log = <<>>
  /\ calls = <<>>

SpecReentrant == InitReentrant /\ [][Next]_vars

----------------------------------------------------------------------------
(* Reading the log of an episode *)

CancelEvents   == {"onCancelSelected"}
CommitEvents   == {"onAnnotationCreated", "onAnnotationUpdated"}
FinalizeEvents == CancelEvents \cup CommitEvents
SelectionEvents == {"onSelectionCreated", "onAnnotationSelected"}

Entries(types) == {i \in DOMAIN log : log[i].type \in types}

CountOf(types) == Cardinality(Entries(types))

\* the episode consists of one stimulus: no other stimulus arrived while its
\* deferred work was queued (the callers await completion, section 5)
Alone(name) == hist.n = 1 /\ hist.op.name = name

Settled(name) == Alone(name) /\ Quiescent

StateCleared ==
  /\ state.selectedAnnotation = NoAnn
  /\ state.selectedDOMElement = NoElem
  /\ state.modifiedTarget = NoTarget
  /\ state.beforeHeadlessModify = NoAnn

----------------------------------------------------------------------------
(* C1 *)

\* the layer reported a selection of B while another annotation A was open
SwitchFrom(disabled) ==
  /\ Alone("select")
  /\ hist.pre.editorDisabled = disabled
  /\ hist.pre.selectedAnnotation # NoAnn
  /\ hist.op.ann # NoAnn
  /\ hist.op.ann # hist.pre.selectedAnnotation

\* C1: with the editor enabled, a 'select' event for B arriving while A is
\* open fires exactly one onCancelSelected, for A, and never an
\* onAnnotationCreated or onAnnotationUpdated, whatever target change or
\* updateSelected(x, false) edit was pending on A.
C1_NormalSwitchCancels ==
  SwitchFrom(FALSE) =>
    /\ CountOf(CommitEvents) = 0
    /\ CountOf(CancelEvents) <= 1
    /\ \A i \in Entries(CancelEvents) : log[i].ann = hist.pre.selectedAnnotation
    /\ Quiescent => CountOf(CancelEvents) = 1

C1_Witness ==
  /\ SwitchFrom(FALSE)
  /\ Quiescent
  /\ hist.pre.modifiedTarget # NoTarget
  /\ hist.pre.beforeHeadlessModify # NoAnn
  /\ CountOf(CancelEvents) = 1
  /\ state.selectedAnnotation = hist.op.ann

----------------------------------------------------------------------------
(* C2 *)

\* C2: in both modes, when B is selected while a different annotation A is
\* open, A is finalized first: whenever the controller holds B or has
\* emitted B's selection event, the cancel/update/create event for A has
\* been emitted and the state has been cleared before; no event for A
\* follows B's selection event.
C2_FinalizeBeforeSelect ==
  (\E disabled \in BOOLEAN : SwitchFrom(disabled)) =>
    /\ \A j \in DOMAIN log :
         (log[j].type \in SelectionEvents \/ log[j].sel = hist.op.ann) =>
           /\ \E i \in 1..(j - 1) : log[i].type \in FinalizeEvents
           /\ \E i \in 1..(j - 1) : log[i].sel = NoAnn
    /\ \A j \in Entries(SelectionEvents) :
         /\ log[j].ann = hist.op.ann
         /\ log[j].sel = hist.op.ann
         /\ \A k \in (j + 1)..Len(log) : log[k].type \notin FinalizeEvents
    /\ state.selectedAnnotation \in {hist.pre.selectedAnnotation, NoAnn, hist.op.ann}
    /\ state.selectedAnnotation = hist.op.ann => CountOf(FinalizeEvents) = 1

C2_Witness ==
  /\ SwitchFrom(TRUE)
  /\ Quiescent
  /\ CountOf(CommitEvents) = 1
  /\ CountOf(SelectionEvents) = 1
  /\ state.selectedAnnotation = hist.op.ann

----------------------------------------------------------------------------
(* C3 *)

\* an existing (non-draft) annotation is open
ExistingOpen ==
  /\ hist.pre.selectedAnnotation # NoAnn
  /\ ~hist.pre.selectedAnnotation.isSelection

\* C3: in headless mode, with an existing annotation A open, a pending
\* modifiedTarget and no recorded baseline, a 'select' event for another
\* annotation fires exactly one onAnnotationUpdated whose first argument is
\* A with target = modifiedTarget and whose previous is the unmodified A,
\* and fires no onCancelSelected.
C3_HeadlessTargetUpdate ==
  ( /\ SwitchFrom(TRUE)
    /\ ExistingOpen
    /\ hist.pre.modifiedTarget # NoTarget
    /\ hist.pre.beforeHeadlessModify = NoAnn ) =>
      /\ CountOf(CancelEvents) = 0
      /\ CountOf({"onAnnotationCreated"}) = 0
      /\ CountOf({"onAnnotationUpdated"}) <= 1
      /\ \A i \in Entries({"onAnnotationUpdated"}) :
           /\ log[i].ann = clone(hist.pre.selectedAnnotation, hist.pre.modifiedTarget)
           /\ log[i].prev = hist.pre.selectedAnnotation
           /\ ~log[i].idCb
      /\ Quiescent => CountOf({"onAnnotationUpdated"}) = 1

C3_Witness ==
  /\ SwitchFrom(TRUE)
  /\ ExistingOpen
  /\ hist.pre.modifiedTarget # NoTarget
  /\ hist.pre.beforeHeadlessModify = NoAnn
  /\ Quiescent
  /\ CountOf({"onAnnotationUpdated"}) = 1
  /\ hist.pre.selectedAnnotation.target # hist.pre.modifiedTarget

----------------------------------------------------------------------------
(* C4 *)

\* nothing was changed on the open existing annotation
NothingPending ==
  /\ ExistingOpen
  /\ hist.pre.modifiedTarget = NoTarget
  /\ hist.pre.beforeHeadlessModify = NoAnn

\* C4: in headless mode, with an existing annotation open and neither a
\* pending modifiedTarget nor a recorded baseline, switching selection or
\* calling saveSelected() fires exactly one onCancelSelected, no
\* onAnnotationUpdated, and never calls the layer's addOrUpdateAnnotation.
C4_HeadlessNoChangeCancels ==
  ( /\ SwitchFrom(TRUE) \/ (Alone("saveSelected") /\ hist.pre.editorDisabled)
    /\ NothingPending ) =>
      /\ CountOf(CommitEvents) = 0
      /\ CountOf({"layer.addOrUpdateAnnotation"}) = 0
      /\ CountOf(CancelEvents) <= 1
      /\ \A i \in Entries(CancelEvents) : log[i].ann = hist.pre.selectedAnnotation
      /\ Quiescent => CountOf(CancelEvents) = 1

C4_Witness ==
  /\ Settled("saveSelected")
  /\ hist.pre.editorDisabled
  /\ NothingPending
  /\ CountOf(CancelEvents) = 1

----------------------------------------------------------------------------
(* C5 *)

\* C5 as stated: in headless mode, selecting existing A and then directly
\* selecting B produces one update event for A with previous = A and no
\* cancellation event for A; B ends up selected.
C5_DirectSwitchUpdates ==
  (SwitchFrom(TRUE) /\ NothingPending /\ Quiescent) =>
    /\ CountOf({"onAnnotationUpdated"}) = 1
    /\ \A i \in Entries({"onAnnotationUpdated"}) : log[i].prev = hist.pre.selectedAnnotation
    /\ CountOf(CancelEvents) = 0
    /\ state.selectedAnnotation = hist.op.ann

\* C5 amended: in headless mode, selecting existing A and then directly
\* selecting B produces one cancellation event for A and no update event;
\* the event for A is the first thing that happens, A's selection closes
\* and B is the selection at the end.
C5_DirectSwitchCancels ==
  (SwitchFrom(TRUE) /\ NothingPending) =>
    /\ CountOf({"onAnnotationUpdated"}) = 0
    /\ log # <<>> =>
         /\ log[1].type = "onCancelSelected"
         /\ log[1].ann = hist.pre.selectedAnnotation
    /\ \A i \in Entries(SelectionEvents) : log[i].ann = hist.op.ann
    /\ Quiescent =>
         /\ CountOf(CancelEvents) = 1
         /\ state.selectedAnnotation = hist.op.ann
         /\ state.modifiedTarget = NoTarget
         /\ state.beforeHeadlessModify = NoAnn

C5_Witness ==
  /\ SwitchFrom(TRUE)
  /\ NothingPending
  /\ Quiescent
  /\ hist.pre.selectedAnnotation = AnnA
  /\ hist.op.ann = AnnB
  /\ CountOf(CancelEvents) = 1
  /\ CountOf(SelectionEvents) = 1
  /\ state.selectedAnnotation = AnnB

----------------------------------------------------------------------------
(* C6 *)

\* saveSelected() follows a row of awaited updateSelected(x, false) calls
\* made on an existing annotation with values of an existing annotation
AfterEdits ==
  /\ Alone("saveSelected")
  /\ hist.chain.edits >= 1
  /\ ~hist.chain.orig.isSelection
  /\ ~hist.chain.last.isSelection

\* the annotation a commit of a hands to the layer and the event
Merged(a) ==
  IF hist.pre.modifiedTarget # NoTarget THEN clone(a, hist.pre.modifiedTarget) ELSE a

\* C6: with existing A0 selected, after one or more awaited
\* updateSelected(x_i, false) calls, saveSelected() fires a single
\* onAnnotationUpdated whose new annotation is the last supplied value
\* (carrying the pending modifiedTarget if there is one) and whose previous
\* is A0, the selection before the first updateSelected, never an x_i.
C6_BaselineIsOriginal ==
  AfterEdits =>
    /\ hist.pre.selectedAnnotation = hist.chain.last
    /\ hist.pre.beforeHeadlessModify = hist.chain.orig
    /\ CountOf(CancelEvents \cup {"onAnnotationCreated"}) = 0
    /\ CountOf({"onAnnotationUpdated"}) <= 1
    /\ \A i \in Entries({"onAnnotationUpdated"}) :
         /\ log[i].ann = Merged(hist.chain.last)
         /\ log[i].prev = hist.chain.orig
         /\ ~log[i].idCb
    /\ Quiescent => CountOf({"onAnnotationUpdated"}) = 1

C6_Witness ==
  /\ AfterEdits
  /\ Quiescent
  /\ hist.chain.edits = 2
  /\ hist.chain.orig = AnnA
  /\ hist.pre.modifiedTarget = NoTarget
  /\ \E i \in Entries({"onAnnotationUpdated"}) :
       /\ log[i].prev = AnnA
       /\ log[i].ann = hist.chain.last
       /\ log[i].ann # AnnA

----------------------------------------------------------------------------
(* C7 *)

\* C7: updateSelected(annotation, saveImmediately) called with no current
\* selection is a no-op whose promise resolves at once: the state is
\* unchanged, nothing is queued, no layer call or event happens, and the
\* promise is resolved, for either value of saveImmediately.
C7_NoSelectionResolves ==
  (Alone("updateSelected") /\ hist.pre.selectedAnnotation = NoAnn) =>
    /\ state = hist.pre
    /\ pending = <<>>
    /\ \A i \in DOMAIN log : log[i].type = "resolve"
    /\ Len(calls) = 1
    /\ calls[1].resolved = 1

----------------------------------------------------------------------------
(* C8 *)

\* the promise of the episode belongs to a Commit (not to a Cancel)
CommitExpected ==
  \/ hist.op.name = "updateSelected"
  \/ hist.pre.selectedAnnotation.isSelection
  \/ hist.pre.beforeHeadlessModify # NoAnn
  \/ hist.pre.modifiedTarget # NoTarget

Before(j, types, p) == \E i \in 1..(j - 1) : log[i].type \in types /\ log[i].by = p

\* C8: every saveSelected() call and every updateSelected() call made with
\* a selection open resolves its promise exactly once, and when it resolves
\* the layer call (addOrUpdateAnnotation / deselect), the public event
\* (created, updated or cancelled) and the state change of the operation
\* have already happened.
C8_ResolvedAfterEffects ==
  /\ \A p \in DOMAIN calls :
       /\ calls[p].resolved <= 1
       /\ (Quiescent /\ (calls[p].op = "saveSelected" \/ calls[p].open)) =>
            calls[p].resolved = 1
  /\ \A j \in Entries({"resolve"}) :
       /\ \A k \in (j + 1)..Len(log) : log[k].by # log[j].by
       /\ ( /\ hist.n = 1
            /\ hist.op.name \in {"saveSelected", "updateSelected"}
            /\ hist.pre.selectedAnnotation # NoAnn ) =>
              IF hist.op.name = "updateSelected" /\ ~hist.op.flag
                THEN log[j].sel = hist.op.ann
                ELSE /\ log[j].sel = NoAnn
                     /\ IF CommitExpected
                          THEN /\ Before(j, {"layer.addOrUpdateAnnotation"}, log[j].by)
                               /\ Before(j, {"layer.deselect"}, log[j].by)
                               /\ Before(j, CommitEvents, log[j].by)
                          ELSE /\ Before(j, CancelEvents, log[j].by)
                               /\ ~hist.pre.editorDisabled =>
                                    Before(j, {"layer.deselect"}, log[j].by)

C8_Witness ==
  /\ Settled("saveSelected")
  /\ hist.pre.selectedAnnotation # NoAnn
  /\ CommitExpected
  /\ Len(calls) = 1
  /\ calls[1].resolved = 1
  /\ log[Len(log)].type = "resolve"
  /\ StateCleared

----------------------------------------------------------------------------
(* C9 *)

\* C9: deleting the open selection through the editor's delete action
\* clears the controller state (selectedAnnotation, selectedDOMElement,
\* modifiedTarget and baseline all none), calls the layer's
\* removeAnnotation once and fires exactly one onAnnotationDeleted and no
\* onCancelSelected.
C9_EditorDeleteClears ==
  Alone("editorDelete") =>
    /\ CountOf({"layer.removeAnnotation"}) = 1
    /\ CountOf({"onAnnotationDeleted"}) = 1
    /\ \A i \in Entries({"layer.removeAnnotation", "onAnnotationDeleted"}) :
         log[i].ann = hist.pre.selectedAnnotation
    /\ CountOf(FinalizeEvents) = 0
    /\ Quiescent => StateCleared

C9_Witness ==
  /\ Settled("editorDelete")
  /\ hist.pre.modifiedTarget # NoTarget
  /\ hist.pre.beforeHeadlessModify # NoAnn
  /\ StateCleared
  /\ CountOf({"onAnnotationDeleted"}) = 1

----------------------------------------------------------------------------
(* C10 *)

\* C10: the public removeAnnotation(annotationOrId) performs the Delete
\* transition: the controller state is cleared (no editor stays open on a
\* removed selection), the layer's removal is invoked and the deleted event
\* is fired.
C10_RemoveIsDelete ==
  (Settled("removeAnnotation") /\ hist.pre.selectedAnnotation = hist.op.ann) =>
    /\ StateCleared
    /\ CountOf({"layer.removeAnnotation"}) = 1
    /\ CountOf({"onAnnotationDeleted"}) = 1

----------------------------------------------------------------------------
(* C11 *)

\* C11: every created event, whichever entry point committed the draft
\* (editor save, saveSelected(), updateSelected(x, true), a headless selection
\* change), carries the id-override callback as its second argument and
\* never a previous annotation value.
C11_CreatedCarriesIdCallback ==
  \A i \in Entries({"onAnnotationCreated"}) :
    /\ log[i].idCb
    /\ log[i].prev = NoAnn

----------------------------------------------------------------------------
(* C12 *)

\* C12: when the application calls the id-override callback of a created
\* annotation with a new id, once the call has settled the layer's
\* overrideId(oldId, newId) was applied exactly once; it was applied with no
\* selection open any more, a selection that was open when the callback was
\* called has been cleared with all its pending edits, and no selection is
\* left open.
C12_OverrideOnceAfterClear ==
  Alone("overrideId") =>
    /\ CountOf({"layer.overrideId"}) <= 1
    /\ \A i \in Entries({"layer.overrideId"}) :
         /\ log[i].ann = hist.op.ann
         /\ log[i].prev = ForcedId
         /\ log[i].sel = NoAnn
    /\ Quiescent => /\ CountOf({"layer.overrideId"}) = 1
                    /\ state.selectedAnnotation = NoAnn
                    /\ hist.pre.selectedAnnotation # NoAnn => StateCleared

\* the callback is called while the created annotation is the open selection
C12_Witness ==
  /\ Settled("overrideId")
  /\ hist.pre.selectedAnnotation # NoAnn
  /\ hist.pre.selectedAnnotation.id = hist.op.ann.id
  /\ CountOf({"layer.overrideId"}) = 1
  /\ StateCleared

----------------------------------------------------------------------------
(* C13 *)

\* C13: in headless mode, releasing Escape while an annotation is selected
\* fires the cancelled event for that annotation, fires no created or
\* updated event, and leaves the controller state cleared.
C13_EscapeCancels ==
  ( /\ Settled("keyup")
    /\ hist.op.flag
    /\ hist.pre.editorDisabled
    /\ hist.pre.selectedAnnotation # NoAnn ) =>
      /\ CountOf(CancelEvents) = 1
      /\ \A i \in Entries(CancelEvents) : log[i].ann = hist.pre.selectedAnnotation
      /\ CountOf(CommitEvents) = 0
      /\ StateCleared

----------------------------------------------------------------------------
(* C14 *)

\* C14: whenever nothing is waiting to run, the Escape handler
\* headlessCancel is registered on the document iff the component is mounted
\* and editorDisabled is on, whatever assignments to disableEditor were
\* made; after unmount no handler is registered.
C14_ListenerFollowsMode ==
  Quiescent =>
    /\ mounted => (escListener <=> state.editorDisabled)
    /\ ~mounted => ~escListener

----------------------------------------------------------------------------
(* C15 *)

\* C15: when the layer emits 'select' (skipEvent not set) for an annotation
\* equal to the one already selected, the controller fires no
\* selection-created or annotation-selected event again, and no cancelled,
\* updated or created event for it.
C15_ReselectIsSilent ==
  ( /\ Alone("select")
    /\ ~hist.op.flag
    /\ hist.pre.selectedAnnotation # NoAnn
    /\ isEqual(hist.pre.selectedAnnotation, hist.op.ann) ) =>
      CountOf(SelectionEvents \cup FinalizeEvents) = 0

----------------------------------------------------------------------------
(* C16 *)

\* C16: in every reachable state, selectedAnnotation = none implies
\* modifiedTarget = none and beforeHeadlessModify = none; in particular an
\* 'updateTarget' event received while nothing is selected leaves no
\* pending modifiedTarget behind.
C16_NoSelectionNoEdits ==
  state.selectedAnnotation = NoAnn =>
    /\ state.modifiedTarget = NoTarget
    /\ state.beforeHeadlessModify = NoAnn

----------------------------------------------------------------------------
(* C17 *)

\* C17: updateSelected(x, true) on an existing (non-draft) selection reports
\* a baseline-aware previous value: if a baseline was recorded by an earlier
\* updateSelected(y, false), the updated event and the layer's
\* addOrUpdateAnnotation receive that baseline as previous, otherwise they
\* receive the annotation selected when the call was made.
C17_ImmediateUpdatePrevious ==
  ( /\ Alone("updateSelected")
    /\ hist.op.flag
    /\ ~hist.op.ann.isSelection
    /\ ExistingOpen ) =>
      \A i \in Entries({"onAnnotationUpdated", "layer.addOrUpdateAnnotation"}) :
        log[i].prev = IF hist.pre.beforeHeadlessModify # NoAnn
                        THEN hist.pre.beforeHeadlessModify
                        ELSE hist.pre.selectedAnnotation

----------------------------------------------------------------------------
(* C18 *)

\* the commits of the episode and the promises they belong to
Committed == CountOf(CommitEvents) > 0

ResolvedNext(j) ==
  log[j].by # 0 =>
    /\ j < Len(log)
    /\ log[j + 1].type = "resolve"
    /\ log[j + 1].by = log[j].by

\* C18 as stated: a commit calls the layer's deselect() only when the editor
\* is enabled; with editorDisabled on, committing leaves the layer's
\* selection untouched; the state is cleared and the promise resolved in
\* both modes.
C18_DeselectOnlyWithEditor ==
  (hist.n = 1 /\ Committed) =>
    /\ CountOf({"layer.deselect"}) > 0 <=> ~hist.pre.editorDisabled
    /\ \A j \in Entries(CommitEvents) : log[j].sel = NoAnn /\ ResolvedNext(j)

\* C18 (amended): a commit calls the layer's deselect() in both modes,
\* immediately before addOrUpdateAnnotation and the created / updated event;
\* when the event is fired the controller state has been cleared, and the
\* promise of the call, if there is one, is resolved right after the event.
C18_CommitDeselectsInBothModes ==
  \A j \in Entries(CommitEvents) :
    /\ j >= 3
    /\ log[j - 2].type = "layer.deselect"
    /\ log[j - 1].type = "layer.addOrUpdateAnnotation"
    /\ log[j - 1].ann = log[j].ann
    /\ ResolvedNext(j)
    /\ hist.n = 1 => log[j].sel = NoAnn

\* a headless commit: saveSelected() with edits pending, editor disabled
C18_Witness ==
  /\ Settled("saveSelected")
  /\ hist.pre.editorDisabled
  /\ CountOf(CommitEvents) = 1
  /\ CountOf({"layer.deselect"}) = 1
  /\ StateCleared
  /\ calls[1].resolved = 1

----------------------------------------------------------------------------
(* C19 *)

\* the value an awaited stimulus commits: the editor's edited annotation, the
\* value supplied to updateSelected(x, true), the open selection otherwise
Own ==
  IF hist.op.name \in {"editorOk", "updateSelected"}
    THEN hist.op.ann
    ELSE hist.pre.selectedAnnotation

\* the awaited saveSelected() follows updateSelected(D', false) calls on a draft
DraftEdited ==
  /\ Alone("saveSelected")
  /\ hist.chain.edits >= 1
  /\ hist.chain.orig.isSelection
  /\ hist.chain.last.isSelection

\* C19: on every commit the committed annotation carries the pending
\* modifiedTarget whenever one is set and its own target otherwise, also when
\* the value was supplied through updateSelected(x, false) or (x, true); the
\* layer and the event get the same value.  In particular, after selecting a
\* draft and updateSelected(D', false), saveSelected() yields one created
\* event for D' (target of D' when no 'updateTarget' arrived), no updated
\* event, and a cleared selection.
C19_CommitCarriesPendingTarget ==
  /\ hist.n = 1 =>
       \A j \in Entries(CommitEvents) :
         /\ log[j].ann = Merged(IF Own.isSelection THEN toAnnotation(Own) ELSE Own)
         /\ log[j].ann.target = IF hist.pre.modifiedTarget # NoTarget
                                  THEN hist.pre.modifiedTarget
                                  ELSE Own.target
         /\ log[j - 1].type = "layer.addOrUpdateAnnotation"
         /\ log[j - 1].ann = log[j].ann
  /\ DraftEdited =>
       /\ hist.pre.selectedAnnotation = hist.chain.last
       /\ CountOf({"onAnnotationUpdated"} \cup CancelEvents) = 0
       /\ CountOf({"onAnnotationCreated"}) <= 1
       /\ \A j \in Entries({"onAnnotationCreated"}) :
            log[j].ann = Merged(toAnnotation(hist.chain.last))
       /\ Quiescent => /\ CountOf({"onAnnotationCreated"}) = 1
                       /\ StateCleared

\* draft D with target T1, updateSelected(D', false) with target T2, no
\* 'updateTarget', then saveSelected()
C19_Witness ==
  /\ DraftEdited
  /\ Quiescent
  /\ hist.chain.orig = DraftD
  /\ hist.chain.last.target = "T2"
  /\ hist.pre.modifiedTarget = NoTarget
  /\ CountOf({"onAnnotationCreated"}) = 1
  /\ \A j \in Entries({"onAnnotationCreated"}) : log[j].ann.target = "T2"
  /\ StateCleared

\* a pending target wins over the target of a value given to updateSelected
C19_PrecedenceWitness ==
  /\ Settled("updateSelected")
  /\ hist.op.flag
  /\ hist.pre.modifiedTarget = "T3"
  /\ hist.op.ann.target = "T2"
  /\ \E j \in Entries(CommitEvents) : log[j].ann.target = "T3"

----------------------------------------------------------------------------
(* C20 *)

\* the episode began, in headless mode and with a selection open, with a
\* 'select' event or a saveSelected() call, and no 'select' of the episode
\* names the open annotation again
HeadlessFinalize ==
  /\ hist.n >= 1
  /\ hist.op.name \in Unawaited
  /\ hist.pre.editorDisabled
  /\ hist.pre.selectedAnnotation # NoAnn
  /\ ~hist.again

\* the log entry is about the annotation that was open when the episode began
ForOpen(i) ==
  log[i].ann \in {hist.pre.selectedAnnotation,
                  Merged(hist.pre.selectedAnnotation),
                  Merged(toAnnotation(hist.pre.selectedAnnotation))}

OpenFinalized == {i \in Entries(FinalizeEvents) : ForOpen(i)}
OpenStored    == {i \in Entries({"layer.addOrUpdateAnnotation"}) : ForOpen(i)}

\* the annotation of the 'select' event handled last is the one selected
LastSelectionStands ==
  (Quiescent /\ hist.lastSelect.seen) =>
    state.selectedAnnotation = hist.lastSelect.ann

====
